---- MODULE Spec2Model ----
(***************************************************************************)
(* BaseModel.cv of src/models/base.py: k-fold cross-validation over an     *)
(* abstract boosting backend (fit / get_best_iteration / predict /         *)
(* get_feature_importance).                                                *)
(*                                                                         *)
(* Floating-point values are modelled as exact rationals <<num, den>> in   *)
(* lowest terms (den > 0); NaN is <<0, 0>>.  IEEE rounding is abstracted:  *)
(* every equality between floats below is an equality in exact arithmetic. *)
(* Arrays keep Python's 0-based indices: slot i of an array is element     *)
(* i + 1 of the sequence that models it.                                   *)
(***************************************************************************)
EXTENDS Integers, Sequences, FiniteSets, TLC

VARIABLES
    pc,              \* "idle" | "loop" | "returned" | "raised"
    reentered,       \* TRUE once a cv call has been made on this object before the current one
    y_train, train_features, test_features, feature_name, folds_ids,  \* arguments of cv
    test_preds, oof_preds, importances, best_iteration, cv_score_list, models,  \* locals of cv
    i_fold,          \* number of loop iterations completed (enumerate index of the next fold)
    calls,           \* the backend calls made by the current cv call, in order
    oof_writers,     \* per out-of-fold slot, the fold numbers that wrote it, in order
    result,          \* what cv returned to its caller
    error            \* the exception that left cv

vars == <<pc, reentered, y_train, train_features, test_features, feature_name,
          folds_ids, test_preds, oof_preds, importances, best_iteration,
          cv_score_list, models, i_fold, calls, oof_writers, result, error>>

(* ------------------------------ bounds -------------------------------- *)
NTrain == 3         \* rows of train_features
NTest == 1          \* rows of test_features
NFeatures == 2      \* columns of train_features
MaxFolds == 2       \* longest fold list supplied
ModelIds == {1, 2}  \* the distinct models the backend can train
ClassCounts == {1, 2, 3}  \* number of distinct labels in y_train

(* ------------------------- exact arithmetic --------------------------- *)
Abs(n) == IF n < 0 THEN -n ELSE n

RECURSIVE GCD(_, _)
GCD(a, b) == IF b = 0 THEN a ELSE GCD(b, a % b)

Norm(n, d) == LET g == GCD(Abs(n), d) IN <<n \div g, d \div g>>

Float(n) == <<n, 1>>
Zero == Float(0)
NaN == <<0, 0>>

Add(x, y) == Norm(x[1] * y[2] + y[1] * x[2], x[2] * y[2])
Div(x, k) == Norm(x[1], x[2] * k)
Less(x, y) == x[1] * y[2] < y[1] * x[2]

RECURSIVE Sum(_)
Sum(s) == IF s = <<>> THEN Zero ELSE Add(Sum(SubSeq(s, 1, Len(s) - 1)), s[Len(s)])

Range(s) == {s[p] : p \in DOMAIN s}

Reverse(s) == [p \in 1..Len(s) |-> s[Len(s) + 1 - p]]


(* ------------------------- inputs of a cv call ------------------------ *)
\* A feature table is its row identities and its column names; the cell
\* contents are read by the backend only.
TrainFrame ==
    [rows |-> [p \in 1..NTrain |-> <<"train", p - 1>>],
     columns |-> [c \in 1..NFeatures |-> "f" \o ToString(c)]]

TestFrame ==
    [rows |-> [p \in 1..NTest |-> <<"test", p - 1>>],
     columns |-> [c \in 1..NFeatures |-> "f" \o ToString(c)]]

AllRows == Range(TrainFrame.rows) \cup Range(TestFrame.rows)

\* Label vectors with one, two (binary) or more classes.
LabelVectors == {[p \in 1..NTrain |-> (p - 1) % c] : c \in ClassCounts}

RECURSIVE Ascending(_)
Ascending(S) ==
    IF S = {} THEN <<>>
    ELSE LET m == CHOOSE x \in S : \A y \in S : x <= y
         IN <<m>> \o Ascending(S \ {m})

\* A fold is <<trn_idx, val_idx>>.  The validation rows are a contiguous,
\* non-empty block; the train rows are the other rows, except in the
\* degenerate fold whose train and validation sets are both every row.
FoldChoices ==
    {<<Ascending(IF b - a = NTrain THEN 0..(NTrain - 1)
                 ELSE (0..(NTrain - 1)) \ (a..(b - 1))),
       Ascending(a..(b - 1))>> :
        a \in 0..(NTrain - 1), b \in 1..NTrain} \ {<<Ascending(0..(NTrain - 1)), <<>>>>}

FoldLists == UNION {[1..k -> FoldChoices] : k \in 0..MaxFolds}

(* ---------------------- the backend (abstract) ------------------------ *)
\* A trained model is an opaque handle; what the backend answers about it
\* is a function of the handle and, for predict, of the row.
Model(s) ==
    [id |-> s,
     best_iteration |-> 10 * s + 1,
     predictions |-> [r \in AllRows |->
                        IF r[1] = "train" THEN ((s + r[2]) % 3) + 1
                        ELSE ((2 * s + r[2]) % 3) + 1],
     importance |-> [c \in 1..NFeatures |-> ((s * c) % 3) + s]]

\* fit: the (model, best_score) pairs a successful training may return.
fit(x_trn, y_trn, x_val, y_val) == {<<Model(s), 100 - s>> : s \in ModelIds}

get_best_iteration(model) == model.best_iteration

predict(model, features) ==
    [p \in 1..Len(features.rows) |-> Float(model.predictions[features.rows[p]])]

get_feature_importance(model) ==
    [c \in 1..Len(model.importance) |-> Float(model.importance[c])]

(* ----------------------- numpy / pandas / sklearn --------------------- *)
NpZeros(n) == [p \in 1..n |-> Zero]

\* train_features.iloc[idx]
Iloc(frame, idx) ==
    [rows |-> [p \in 1..Len(idx) |-> frame.rows[idx[p] + 1]], columns |-> frame.columns]

\* y_train[idx]
Take(array, idx) == [p \in 1..Len(idx) |-> array[idx[p] + 1]]

\* pd.DataFrame(data, columns=[column], index=index); column-less when data = <<>>
DataFrame(data, columns, index) ==
    [index |-> index,
     columns |-> columns,
     values |-> [n \in Range(index) |->
                   IF columns = <<>> THEN <<>>
                   ELSE <<data[CHOOSE c \in DOMAIN index : index[c] = n]>>]]

\* left.join(right, how='inner'): the rows whose label is in both indexes
Join(left, right) ==
    LET index == SelectSeq(left.index, LAMBDA n : n \in Range(right.index))
    IN [index |-> index,
        columns |-> left.columns \o right.columns,
        values |-> [n \in Range(index) |-> left.values[n] \o right.values[n]]]

\* the row sum in place of the row mean
SumAxis1(frame) ==
    [index |-> frame.index,
     values |-> [n \in Range(frame.index) |->
                   IF frame.columns = <<>> THEN NaN ELSE Sum(frame.values[n])]]

\* frame.mean(axis=1)
MeanAxis1(frame) ==
    [index |-> frame.index,
     values |-> [n \in Range(frame.index) |->
                   IF frame.columns = <<>> THEN NaN
                   ELSE Div(Sum(frame.values[n]), Len(frame.columns))]]

RECURSIVE InsertDescending(_, _)
InsertDescending(sorted, item) ==
    IF sorted = <<>> THEN <<item>>
    ELSE IF Less(sorted[Len(sorted)][2], item[2])
         THEN Append(InsertDescending(SubSeq(sorted, 1, Len(sorted) - 1), item),
                     sorted[Len(sorted)])
         ELSE Append(sorted, item)

RECURSIVE SortedItems(_, _)
SortedItems(series, n) ==
    IF n = 0 THEN <<>>
    ELSE InsertDescending(SortedItems(series, n - 1),
                          <<series.index[n], series.values[series.index[n]]>>)

\* series.sort_values(ascending=False).to_dict(): the items in dict order
SortValuesToDict(series) == SortedItems(series, Len(series.index))

\* roc_auc_score(y_true, y_score): defined for exactly two classes
RocAucDefined(y_true) == Cardinality(Range(y_true)) = 2

roc_auc_score(y_true, y_score) ==
    LET top == CHOOSE l \in Range(y_true) : \A m \in Range(y_true) : m <= l
        pos == {p \in DOMAIN y_true : y_true[p] = top}
        neg == DOMAIN y_true \ pos
        gt == Cardinality({q \in pos \X neg : Less(y_score[q[2]], y_score[q[1]])})
        eq == Cardinality({q \in pos \X neg : y_score[q[2]] = y_score[q[1]]})
    IN Norm(2 * gt + eq, 2 * Cardinality(pos) * Cardinality(neg))

(* ------------------------------- cv ----------------------------------- *)
NoResult == <<>>
NoError == "none"
FitError == "fit raised"
ScoreError == "ValueError: roc_auc_score"

\* lines 43-48: the working state every call starts from
InitTestPreds(features) == NpZeros(Len(features.rows))
InitOofPreds(features) == NpZeros(Len(features.rows))
InitImportances(names) == DataFrame(<<>>, <<>>, names)
InitBestIteration == Zero
InitCvScoreList == <<>>
CarriedModels == models  \* the list of an earlier call kept
InitModels == <<>>

\* floor division in place of true division
AddBestIterationFloorDiv(acc, model, n_folds) ==
    Add(acc, Float(get_best_iteration(model) \div n_folds))

\* line 61: best_iteration += get_best_iteration(model) / len(folds_ids)
AddBestIteration(acc, model, n_folds) ==
    Add(acc, Div(Float(get_best_iteration(model)), n_folds))

\* the predictions written by position, oof_preds[:len(val_idx)] = preds
OofAssignPositional(oof, val_idx, preds) ==
    [p \in 1..Len(oof) |-> IF p <= Len(val_idx) THEN preds[p] ELSE oof[p]]

\* a slot already written keeps its first value
OofAssignKeepWritten(oof, val_idx, preds) ==
    [p \in 1..Len(oof) |->
        LET at == {q \in DOMAIN val_idx : val_idx[q] + 1 = p}
        IN IF at = {} \/ oof[p] # Zero THEN oof[p]
           ELSE preds[CHOOSE q \in at : \A r \in at : r <= q]]

\* line 64: oof_preds[val_idx] = preds (a repeated index keeps the last value)
OofAssign(oof, val_idx, preds) ==
    [p \in 1..Len(oof) |->
        LET at == {q \in DOMAIN val_idx : val_idx[q] + 1 = p}
        IN IF at = {} THEN oof[p]
           ELSE preds[CHOOSE q \in at : \A r \in at : r <= q]]

\* the slots line 64 writes, recorded with the number of the writing fold
RecordWriters(writers, val_idx, fold) ==
    [p \in DOMAIN writers |->
        IF \E q \in DOMAIN val_idx : val_idx[q] + 1 = p
        THEN Append(writers[p], fold) ELSE writers[p]]

\* the division by the fold count forgotten
AddTestPredsNoDivision(acc, preds, n_folds) ==
    [p \in DOMAIN acc |-> Add(acc[p], preds[p])]

\* assignment in place of accumulation, test_preds = preds / len(folds_ids)
AddTestPredsOverwrite(acc, preds, n_folds) ==
    [p \in DOMAIN acc |-> Div(preds[p], n_folds)]

\* line 65: test_preds += preds / len(folds_ids)
AddTestPreds(acc, preds, n_folds) ==
    [p \in DOMAIN acc |-> Add(acc[p], Div(preds[p], n_folds))]

\* lines 68-73: the fold's importances as column gain_{i_fold + 1}, inner-joined
JoinImportances(table, gains, fold, names) ==
    Join(table, DataFrame(gains, <<"gain_" \o ToString(fold)>>, names))

\* the keys numbered from 0
CvScoreDictZeroBased(scores) ==
    [j \in 1..Len(scores) |-> <<"cv" \o ToString(j - 1), scores[j]>>]

\* lines 83-84: {f"cv{i + 1}": cv_score for i, cv_score in enumerate(cv_score_list)}
CvScoreDict(scores) == [j \in 1..Len(scores) |-> <<"cv" \o ToString(j), scores[j]>>]

\* lines 81-90
EvalsResults(oof_score, feature_importance) ==
    [oof_score |-> oof_score,
     cv_score |-> CvScoreDict(cv_score_list),
     n_data |-> Len(train_features.rows),
     best_iteration |-> best_iteration,
     n_features |-> Len(train_features.columns),
     feature_importance |-> SortValuesToDict(feature_importance)]

\* lines 52-73 after fit returned model: the accumulators after the pass for
\* fold number fold = <<trn_idx, val_idx>> of n_folds
LoopBody(w, fold, idx, model, n_folds) ==
    LET x_val == Iloc(train_features, idx[2])
    IN [best_iteration |-> AddBestIteration(w.best_iteration, model, n_folds),
        oof_preds |-> OofAssign(w.oof_preds, idx[2], predict(model, x_val)),
        test_preds |-> AddTestPreds(w.test_preds, predict(model, test_features), n_folds),
        importances |-> JoinImportances(w.importances, get_feature_importance(model),
                                        fold, feature_name)]

\* the failed fold skipped and the loop continued
SkipFailedFold == [pc |-> "loop", i_fold |-> i_fold + 1]

\* line 58 has no handler around fit: the exception leaves the loop and cv
OnFitError == [pc |-> "raised", i_fold |-> i_fold]

\* the score error caught and what was computed handed back
ReturnPartialResults ==
    [pc |-> "returned", result |-> <<models, oof_preds, test_preds>>]

\* line 79 has no handler around roc_auc_score either
OnScoreError == [pc |-> "raised", result |-> NoResult]

Init ==
    /\ pc = "idle"
    /\ reentered = FALSE
    /\ y_train = <<>>
    /\ train_features = TrainFrame
    /\ test_features = TestFrame
    /\ feature_name = <<>>
    /\ folds_ids = <<>>
    /\ test_preds = <<>>
    /\ oof_preds = <<>>
    /\ importances = DataFrame(<<>>, <<>>, <<>>)
    /\ best_iteration = Zero
    /\ cv_score_list = <<>>
    /\ models = <<>>
    /\ i_fold = 0
    /\ calls = <<>>
    /\ oof_writers = <<>>
    /\ result = NoResult
    /\ error = NoError

\* lines 42-48: every call builds its working state anew
Initialize ==
    /\ test_preds' = InitTestPreds(test_features')
    /\ oof_preds' = InitOofPreds(train_features')
    /\ importances' = InitImportances(feature_name')
    /\ best_iteration' = InitBestIteration
    /\ cv_score_list' = InitCvScoreList
    /\ models' = InitModels
    /\ i_fold' = 0
    /\ calls' = <<>>
    /\ oof_writers' = [p \in 1..Len(train_features'.rows) |-> <<>>]
    /\ result' = NoResult
    /\ error' = NoError
    /\ pc' = "loop"

\* the first cv call on the object (lines 35-48)
Call ==
    /\ pc = "idle"
    /\ reentered' = FALSE
    /\ y_train' \in LabelVectors
    /\ train_features' = TrainFrame
    /\ test_features' = TestFrame
    /\ feature_name' = TrainFrame.columns
    /\ folds_ids' \in FoldLists
    /\ Initialize

\* cv is called again on the same object after an earlier call returned or
\* raised: on the same tables, with any labels and the folds in either order
CallAgain ==
    /\ pc \in {"returned", "raised"}
    /\ reentered' = TRUE
    /\ y_train' \in LabelVectors
    /\ folds_ids' \in {folds_ids, Reverse(folds_ids)}
    /\ UNCHANGED <<train_features, test_features, feature_name>>
    /\ Initialize

\* one pass through the loop body (lines 50-73), fit succeeding
FoldIteration ==
    /\ pc = "loop"
    /\ i_fold < Len(folds_ids)
    /\ LET fold == i_fold + 1
           trn_idx == folds_ids[fold][1]
           val_idx == folds_ids[fold][2]
           x_trn == Iloc(train_features, trn_idx)
           y_trn == Take(y_train, trn_idx)
           x_val == Iloc(train_features, val_idx)
           y_val == Take(y_train, val_idx)
       IN \E fitted \in fit(x_trn, y_trn, x_val, y_val) :
            LET model == fitted[1]
                best_score == fitted[2]
                w == LoopBody([best_iteration |-> best_iteration, oof_preds |-> oof_preds,
                               test_preds |-> test_preds, importances |-> importances],
                              fold, folds_ids[fold], model, Len(folds_ids))
            IN /\ cv_score_list' = Append(cv_score_list, best_score)
               /\ models' = Append(models, model)
               /\ best_iteration' = w.best_iteration
               /\ oof_preds' = w.oof_preds
               /\ oof_writers' = RecordWriters(oof_writers, val_idx, fold)
               /\ test_preds' = w.test_preds
               /\ importances' = w.importances
               /\ calls' = calls \o
                    << [op |-> "fit", fold |-> fold, ok |-> TRUE, ret |-> fitted],
                       [op |-> "get_best_iteration", fold |-> fold, ok |-> TRUE,
                        ret |-> <<get_best_iteration(model)>>],
                       [op |-> "predict_valid", fold |-> fold, ok |-> TRUE,
                        ret |-> predict(model, x_val)],
                       [op |-> "predict_test", fold |-> fold, ok |-> TRUE,
                        ret |-> predict(model, test_features)],
                       [op |-> "get_feature_importance", fold |-> fold, ok |-> TRUE,
                        ret |-> get_feature_importance(model)] >>
    /\ i_fold' = i_fold + 1
    /\ UNCHANGED <<pc, reentered, y_train, train_features, test_features, feature_name,
                   folds_ids, result, error>>

\* the backend's fit raises on the next fold (line 58)
FitRaises ==
    /\ pc = "loop"
    /\ i_fold < Len(folds_ids)
    /\ calls' = Append(calls, [op |-> "fit", fold |-> i_fold + 1, ok |-> FALSE, ret |-> <<>>])
    /\ error' = FitError
    /\ pc' = OnFitError.pc
    /\ i_fold' = OnFitError.i_fold
    /\ UNCHANGED <<reentered, y_train, train_features, test_features, feature_name,
                   folds_ids, test_preds, oof_preds, importances, best_iteration,
                   cv_score_list, models, oof_writers, result>>

\* after the loop (lines 75-92), the score being defined
Summary ==
    /\ pc = "loop"
    /\ i_fold = Len(folds_ids)
    /\ RocAucDefined(y_train)
    /\ LET feature_importance == MeanAxis1(importances)
           oof_score == roc_auc_score(y_train, oof_preds)
       IN result' = <<models, oof_preds, test_preds, feature_importance,
                      EvalsResults(oof_score, feature_importance)>>
    /\ pc' = "returned"
    /\ UNCHANGED <<reentered, y_train, train_features, test_features, feature_name,
                   folds_ids, test_preds, oof_preds, importances, best_iteration,
                   cv_score_list, models, i_fold, calls, oof_writers, error>>

\* after the loop, roc_auc_score raising ValueError (line 79)
ScoreRaises ==
    /\ pc = "loop"
    /\ i_fold = Len(folds_ids)
    /\ ~RocAucDefined(y_train)
    /\ error' = ScoreError
    /\ pc' = OnScoreError.pc
    /\ result' = OnScoreError.result
    /\ UNCHANGED <<reentered, y_train, train_features, test_features, feature_name,
                   folds_ids, test_preds, oof_preds, importances, best_iteration,
                   cv_score_list, models, i_fold, calls, oof_writers>>

Next == Call \/ CallAgain \/ FoldIteration \/ FitRaises \/ Summary \/ ScoreRaises

Spec == Init /\ [][Next]_vars

(* ------------------------------ properties ---------------------------- *)
K == Len(folds_ids)

\* what the backend answered to the call of op made for fold j
Ret(op, j) ==
    LET n == CHOOSE n \in DOMAIN calls : calls[n].op = op /\ calls[n].fold = j
    IN calls[n].ret

ValSet(j) == Range(folds_ids[j][2])
FoldsWith(i) == {j \in 1..K : i \in ValSet(j)}
Slots == 0..(Len(train_features.rows) - 1)

\* the element of predict(model_j, x_val) for training row i
ValPred(j, i) ==
    LET val_idx == folds_ids[j][2]
    IN Ret("predict_valid", j)[CHOOSE q \in DOMAIN val_idx : val_idx[q] = i]

LastOf(S) == CHOOSE j \in S : \A l \in S : l <= j

ValPartition == \A i \in Slots : Cardinality(FoldsWith(i)) = 1
ValDisjoint == \A i \in Slots : Cardinality(FoldsWith(i)) <= 1

\* C1: when the validation sets cover every training index exactly once, the
\* returned out-of-fold vector has one slot per training row, each written
\* exactly once, by the one fold whose validation set holds it, and holding
\* that fold's prediction for the row.
C1_OofWrittenOnce ==
    (pc = "returned" /\ ValPartition) =>
        /\ Len(result[2]) = Len(train_features.rows)
        /\ \A i \in Slots :
             \E j \in 1..K :
                /\ FoldsWith(i) = {j}
                /\ oof_writers[i + 1] = <<j>>
                /\ result[2][i + 1] = ValPred(j, i)

C1_Witness ==
    /\ pc = "returned"
    /\ ValPartition
    /\ K = 2
    /\ Ret("fit", 1)[1] # Ret("fit", 2)[1]

\* the degenerate fold list of C1: one fold, train = validation = every row
C1_DegenerateReached ==
    /\ pc = "returned"
    /\ K = 1
    /\ Range(folds_ids[1][1]) = Slots
    /\ ValSet(1) = Slots
    /\ \A i \in Slots : oof_writers[i + 1] = <<1>>

\* C2: for k >= 1 folds the returned test-prediction vector has one element
\* per test row, the unweighted mean of the k per-fold test predictions.
C2_TestPredsAreMean ==
    (pc = "returned" /\ K >= 1) =>
        /\ Len(result[3]) = Len(test_features.rows)
        /\ \A t \in 1..Len(test_features.rows) :
             result[3][t] = Div(Sum([j \in 1..K |-> Ret("predict_test", j)[t]]), K)

C2_Witness ==
    /\ pc = "returned"
    /\ K = 2
    /\ Ret("predict_test", 1) # Ret("predict_test", 2)
    /\ Len(folds_ids[1][2]) # Len(folds_ids[2][2])

\* C3: for k >= 1 folds the reported best_iteration is the arithmetic mean of
\* the k values of get_best_iteration, whatever the fold sizes.
C3_BestIterationIsMean ==
    (pc = "returned" /\ K >= 1) =>
        result[5].best_iteration =
            Div(Sum([j \in 1..K |-> Float(Ret("get_best_iteration", j)[1])]), K)

C3_Witness ==
    /\ pc = "returned"
    /\ K = 2
    /\ Ret("get_best_iteration", 1) # Ret("get_best_iteration", 2)
    /\ Len(folds_ids[1][1]) # Len(folds_ids[2][1])
    /\ Len(folds_ids[1][2]) # Len(folds_ids[2][2])

\* C4: the returned model sequence has k entries, entry j the model fit
\* returned for the j-th fold; the report's cv_score has k entries keyed
\* cv1..cvk, cv{j} mapping to the best_score fit returned for the j-th fold.
C4_ModelsAndScoresInFoldOrder ==
    (pc = "returned") =>
        /\ Len(result[1]) = K
        /\ \A j \in 1..K : result[1][j] = Ret("fit", j)[1]
        /\ Len(result[5].cv_score) = K
        /\ \A j \in 1..K :
             result[5].cv_score[j] = <<"cv" \o ToString(j), Ret("fit", j)[2]>>

C4_Witness ==
    /\ pc = "returned"
    /\ K = 2
    /\ Ret("fit", 1) # Ret("fit", 2)
    /\ result[5].cv_score[2][1] = "cv2"

\* C5: when fit fails on fold j, cv fails with that error and returns
\* nothing; fit was called once for each of folds 1..j in order, no backend
\* operation was called for a later fold, and nothing stands in for fold j.
C5_FitErrorPropagates ==
    (error = FitError) =>
        LET j == i_fold + 1
            fits == SelectSeq(calls, LAMBDA c : c.op = "fit")
        IN /\ pc = "raised"
           /\ result = NoResult
           /\ Len(fits) = j
           /\ \A n \in 1..j : fits[n].fold = n /\ fits[n].ok = (n < j)
           /\ \A n \in DOMAIN calls : calls[n].fold <= j
           /\ \A n \in DOMAIN calls : calls[n].fold = j => calls[n].op = "fit"
           /\ Len(models) = j - 1
           /\ Len(cv_score_list) = j - 1
           /\ Len(importances.columns) = j - 1

C5_Witness ==
    /\ error = FitError
    /\ pc = "raised"
    /\ i_fold = 1
    /\ K = 2

\* C6 as stated: when the score computation fails on non-binary labels, every
\* fold has been fitted and the k trained models reach the caller.
C6_ModelsReachCaller ==
    (error = ScoreError) =>
        /\ Len(SelectSeq(calls, LAMBDA c : c.op = "fit" /\ c.ok)) = K
        /\ result # NoResult
        /\ result[1] = models

\* C6 amended: when the score computation fails on non-binary labels, every
\* fold has been fitted, each once, and cv raises at that step returning
\* nothing: the trained models are not handed to the caller.
C6_ScoreErrorAfterAllFits ==
    (error = ScoreError) =>
        /\ pc = "raised"
        /\ ~RocAucDefined(y_train)
        /\ i_fold = K
        /\ Len(models) = K
        /\ \A j \in 1..K : models[j] = Ret("fit", j)[1]
        /\ Len(SelectSeq(calls, LAMBDA c : c.op = "fit")) = K
        /\ result = NoResult

C6_Witness ==
    /\ error = ScoreError
    /\ pc = "raised"
    /\ Cardinality(Range(y_train)) > 2
    /\ K = 2

\* the row labels of the importance frame built from fold j's output
FoldNames(j) ==
    {feature_name[c] : c \in DOMAIN Ret("get_feature_importance", j)}

RECURSIVE Loop(_, _, _)
Loop(folds, fitted, n) ==
    IF n = 0
    THEN [best_iteration |-> InitBestIteration,
          oof_preds |-> InitOofPreds(train_features),
          test_preds |-> InitTestPreds(test_features),
          importances |-> InitImportances(feature_name)]
    ELSE LoopBody(Loop(folds, fitted, n - 1), n, folds[n], fitted[n], Len(folds))

Aggregates(w) ==
    <<w.oof_preds, w.test_preds, w.best_iteration, MeanAxis1(w.importances).values>>

FoldOrders(n) == {f \in [1..n -> 1..n] : \A a, b \in 1..n : f[a] = f[b] => a = b}

FittedModels == [j \in 1..K |-> Ret("fit", j)[1]]

SameAggregatesInAnyOrder ==
    \A f \in FoldOrders(K) :
        Aggregates(Loop([j \in 1..K |-> folds_ids[f[j]]],
                        [j \in 1..K |-> FittedModels[f[j]]], K))
            = <<result[2], result[3], result[5].best_iteration, result[4].values>>

\* the backend's results for a fold depend on the fold only
FitDependsOnFoldOnly ==
    \A a, b \in 1..K : folds_ids[a] = folds_ids[b] => FittedModels[a] = FittedModels[b]

\* C8 as stated: for every fold list, cv on any permutation of it (each fold
\* keeping its model) returns the same out-of-fold vector, test predictions,
\* averaged best_iteration and mean importances.
C8_AnyFoldListOrderFree ==
    (pc = "returned" /\ FitDependsOnFoldOnly) => SameAggregatesInAnyOrder

\* C8 amended: the same, for fold lists whose validation sets are pairwise
\* disjoint.
C8_DisjointFoldListOrderFree ==
    (pc = "returned" /\ FitDependsOnFoldOnly /\ ValDisjoint) => SameAggregatesInAnyOrder

C8_Witness ==
    /\ pc = "returned"
    /\ ValDisjoint
    /\ K = 2
    /\ folds_ids[1] # folds_ids[2]
    /\ FittedModels[1] # FittedModels[2]

\* C9: inside every call, the first or a later one, the working state is
\* what the folds passed so far in this call make of the initial values
\* (zero vectors, empty table, 0, empty lists), and what is returned is made
\* of that working state alone.
C9_NothingCarriedOver ==
    /\ (pc = "loop" /\ i_fold = 0) =>
          /\ test_preds = NpZeros(Len(test_features.rows))
          /\ oof_preds = NpZeros(Len(train_features.rows))
          /\ importances.columns = <<>>
          /\ best_iteration = Zero
          /\ cv_score_list = <<>>
          /\ models = <<>>
    /\ (pc \in {"loop", "returned"}) =>
          LET w == Loop(folds_ids, models, i_fold)
          IN /\ Len(models) = i_fold
             /\ Len(cv_score_list) = i_fold
             /\ \A j \in 1..i_fold :
                  models[j] = Ret("fit", j)[1] /\ cv_score_list[j] = Ret("fit", j)[2]
             /\ test_preds = w.test_preds
             /\ best_iteration = w.best_iteration
             /\ oof_preds = w.oof_preds
             /\ importances = w.importances
    /\ (pc = "returned") =>
          /\ result[1] = models
          /\ result[2] = oof_preds
          /\ result[3] = test_preds
          /\ result[5].best_iteration = best_iteration

C9_Witness ==
    /\ reentered
    /\ pc = "returned"
    /\ K = 2

\* C10: a slot in no validation set holds 0.0 at return and was never
\* written; a slot in several validation sets holds the prediction of the
\* last of those folds in supplied order.
C10_UncoveredZeroOverlapLast ==
    (pc = "returned" /\ ~ValPartition) =>
        \A i \in Slots :
            IF FoldsWith(i) = {}
            THEN result[2][i + 1] = Zero /\ oof_writers[i + 1] = <<>>
            ELSE /\ result[2][i + 1] = ValPred(LastOf(FoldsWith(i)), i)
                 /\ Range(oof_writers[i + 1]) = FoldsWith(i)
                 /\ Len(oof_writers[i + 1]) = Cardinality(FoldsWith(i))

C10_Witness ==
    /\ pc = "returned"
    /\ \E i \in Slots : FoldsWith(i) = {}
    /\ \E i \in Slots : FoldsWith(i) = {1, 2} /\ ValPred(1, i) # ValPred(2, i)

====
